---- MODULE Spec2Model ----
(***************************************************************************)
(* Model of the driven-micro dispatch core: MessageBus (core/MessageBus),  *)
(* the IHandler template method, IUnitOfWork and the IDomain event buffer. *)
(*                                                                         *)
(* _handle, the repository and the _commit/_rollback hooks are abstract in *)
(* the framework.  _handle is modelled as a nondeterministic program of at *)
(* most MaxOps steps (addEvent, uow.add/get/update, addMessages, throw);   *)
(* the repository and the hooks by their contract: repo.add/update put the *)
(* aggregate into `seen` and stage a write, _commit makes staged writes    *)
(* durable, _rollback discards staged writes; repo operations and both     *)
(* hooks may throw.  setDbSession/closeDbSession and logError do not throw.*)
(***************************************************************************)
EXTENDS Integers, Sequences, FiniteSets, TLC

\* ------------------------------------------------------------------ bounds
MaxCreated == 5      \* message objects constructed in one behaviour
MaxProcessed == 5    \* messages popped in one chain
MaxChains == 2       \* external MessageBus.handle calls
MaxOps == 2          \* steps of one _handle body
MaxHarvestOps == 4   \* steps of the _handle body followed on its own

\* ------------------------------------------------------ message universe
CommandNames == {"A", "X"}
EventNames == {"B", "C", "L"}
OtherNames == {"M"}
Aggregates == {"d1", "d2"}

\* variant: whatever is not a Command is routed as an Event
KindOfLenient(name) ==
    IF name \in CommandNames THEN "cmd" ELSE "evt"

KindOf(name) ==
    IF name \in CommandNames THEN "cmd"
    ELSE IF name \in EventNames THEN "evt" ELSE "other"

\* a message object: its base class, its constructor.name, its identity and,
\* for an IEvent recorded by an aggregate, the aggregate (IEvent.domain)
Msg(name, id) ==
    [kind |-> KindOf(name), name |-> name, id |-> id, domain |-> "none"]

\* new E(domain): the event an aggregate records about itself
EventOf(d, name, id) == [Msg(name, id) EXCEPT !.domain = d]

\* new B(...) of a Command class that has the constructor.name of an Event
\* class
NamesakeCommand(name, id) == [Msg(name, id) EXCEPT !.kind = "cmd"]

NoMsg == [kind |-> "none", name |-> "none", id |-> 0, domain |-> "none"]

\* ------------------------------------------------- bootstrap's handler maps
\* key: constructor.name of the message, value: the one handler instance
\* both maps have an entry under "B": a Command class and an Event class
\* of that name
commandHandlers == [n \in {"A", "B"} |-> IF n = "A" THEN "hA" ELSE "hD"]
eventHandlers == [n \in {"B", "C"} |-> IF n = "B" THEN "hB" ELSE "hC"]

Handlers == {"hA", "hB", "hC", "hD"}

\* this.uow of a handler instance: the command handler owns a Unit of Work
HasUow(h) == h = "hA"

\* the concrete handler classes: the message variants each _handle may
\* construct and pass to addMessages, and the event variants its aggregates
\* may record
Emits(h) ==
    IF h = "hA" THEN {"B", "C"}
    ELSE IF h = "hB" THEN {"L"}
    ELSE IF h = "hD" THEN {"B"}
    ELSE {"L", "X", "M"}

Records(h) == IF h = "hA" THEN {"B"} ELSE {}

\* error values: the Error objects thrown by the bus and the collaborators
Err(type, detail) == [type |-> type, detail |-> detail]
NoError == Err("none", "")
BusinessErrors == {Err("business", "boom")}
RepoError == Err("repo", "repo operation failed")
CommitError == Err("commit", "commit hook failed")
RollbackError == Err("rollback", "rollback hook failed")

VARIABLES
    queue,        \* MessageBus.queue
    pc,           \* position of the running handle call
    cur,          \* currentMessage of the loop
    handler,      \* handler instance resolved for cur
    err,          \* error in flight inside IHandler.handle
    thrown,       \* history: the error as it was first thrown
    result,       \* outcome of the last MessageBus.handle call
    ret,          \* IHandler._return_messages, per handler instance
    uowEvents,    \* IUnitOfWork._events
    seen,         \* IDomainRepo.seen, in insertion order
    sessionOpen,  \* storage session between setDbSession and closeDbSession
    buf,          \* IDomain._events, per aggregate
    staged,       \* writes of the repository not yet committed
    durable,      \* writes made durable by _commit
    nextId,       \* identity of the next message object constructed
    ops,          \* steps taken by the running _handle
    log,          \* history: the calls the running handler invocation made
                  \* on aggregates, repository and hooks, in call order
    arrivals,     \* history: messages enqueued in this chain, with parent
    qidx,         \* history: arrival index of each queue element
    processed,    \* history: arrival indices in the order popped
    invoked,      \* history: handler invocations started in this chain
    retAtStart,   \* history: _return_messages when the invocation began
    returned,     \* history: list handed to the bus by the last handler
    chainDurable, \* history: writes made durable during this chain
    chains,       \* number of handle calls made
    adapter,      \* the entry-point adapter call: its position, its input,
                  \* the collaborators it called and its response
    second,       \* a MessageBus.handle call overlapping the running one
    repoAttached, \* IUnitOfWork._repo has been set by the concrete class
    hist          \* history: identities of the events the Unit of Work held
                  \* when the invocation began, of the events harvested by
                  \* an invocation whose commit threw, and of the messages
                  \* left in the queue of a chain that aborted

vars == <<queue, pc, cur, handler, err, thrown, result, ret, uowEvents, seen,
          sessionOpen, buf, staged, durable, nextId, ops, log, arrivals,
          qidx, processed, invoked, retAtStart, returned, chainDurable,
          chains, adapter, second, repoAttached, hist>>

busVars == <<queue, cur, handler, result, arrivals, qidx, processed,
             invoked, chains>>
uowVars == <<uowEvents, seen, sessionOpen, staged, durable, log,
             chainDurable>>
auxVars == <<repoAttached, hist>>
extVars == <<adapter, second, auxVars>>

\* no adapter call is in progress
NoAdapter ==
    [kind |-> "none", pc |-> "off", jobId |-> "none", valid |-> TRUE,
     command |-> "none", calls |-> <<>>, thrown |-> NoError,
     response |-> [status |-> 0, jobId |-> "none", message |-> ""]]

\* no second handle call has been made
NoSecond ==
    [pc |-> "off", cur |-> NoMsg, handler |-> "none", root |-> 0,
     popped |-> <<>>, dropped |-> <<>>, result |-> "none"]

NoHistory == [atStart |-> {}, lost |-> {}, abandoned |-> {}]

Init ==
    /\ queue = <<>>
    /\ pc = "idle"
    /\ cur = NoMsg
    /\ handler = "none"
    /\ err = NoError
    /\ thrown = NoError
    /\ result = [status |-> "none", error |-> NoError]
    /\ ret = [h \in Handlers |-> <<>>]
    /\ uowEvents = <<>>
    /\ seen = <<>>
    /\ sessionOpen = FALSE
    /\ buf = [d \in Aggregates |-> <<>>]
    /\ staged = {}
    /\ durable = {}
    /\ nextId = 1
    /\ ops = 0
    /\ log = <<>>
    /\ arrivals = <<>>
    /\ qidx = <<>>
    /\ processed = <<>>
    /\ invoked = 0
    /\ retAtStart = <<>>
    /\ returned = <<>>
    /\ chainDurable = {}
    /\ chains = 0
    /\ adapter = NoAdapter
    /\ second = NoSecond
    /\ repoAttached = TRUE
    /\ hist = NoHistory

\* ------------------------------------------------------------ IDomain
\* variant: this._events.unshift(event)
AddEventFront(b, d, e) == [b EXCEPT ![d] = <<e>> \o @]

\* addEvent: push at the tail of the aggregate's pending buffer
AddEvent(b, d, e) == [b EXCEPT ![d] = Append(@, e)]

\* ---------------------------------------------------------- IUnitOfWork
\* The Unit of Work, its repository and the aggregates as one record u:
\*   repo, events, seen, open, buf, staged, durable, cdur, log, error

UowState ==
    [repo |-> repoAttached, events |-> uowEvents, seen |-> seen,
     open |-> sessionOpen, buf |-> buf, staged |-> staged,
     durable |-> durable, cdur |-> chainDurable, log |-> log,
     error |-> NoError]

\* enter(): this._repo.setDbSession()
Enter(u) == [u EXCEPT !.open = TRUE, !.log = Append(@, "set")]

\* this._repo.closeDbSession()
CloseDbSession(u) == [u EXCEPT !.open = FALSE, !.log = Append(@, "close")]

\* _rollback(): the hook discards the staged writes, or throws
Rollback(u, rbThrows) ==
    IF rbThrows
    THEN [u EXCEPT !.log = Append(@, "rollback"), !.error = RollbackError]
    ELSE [u EXCEPT !.log = Append(@, "rollback"), !.staged = {}]

\* exit(error?): rollback when an error is given, then close the session;
\* a throwing rollback leaves exit before closeDbSession
Exit(u, withError, rbThrows) ==
    IF withError
    THEN LET r == Rollback(u, rbThrows)
         IN  IF r.error # NoError THEN r ELSE CloseDbSession(r)
    ELSE CloseDbSession(u)

\* commit(): the hook makes the staged writes durable, or throws
Commit(u, commitThrows) ==
    IF commitThrows
    THEN [u EXCEPT !.log = Append(@, "commit"), !.error = CommitError]
    ELSE [u EXCEPT !.log = Append(@, "commit"),
                   !.durable = @ \cup u.staged,
                   !.cdur = @ \cup u.staged,
                   !.staged = {}]

\* variant: the events are copied to _events and left in the buffer
ShiftAllKeep(pending, events) ==
    [pending |-> pending, events |-> events \o pending]

\* while (domain.events.length > 0) this._events.push(domain.events.shift())
\* gives the aggregate's buffer and _events when the loop ends
RECURSIVE ShiftAll(_, _)
ShiftAll(pending, events) ==
    IF pending = <<>> THEN [pending |-> pending, events |-> events]
    ELSE ShiftAll(Tail(pending), Append(events, Head(pending)))

\* variant: the loop over seen leaves after its first aggregate
DrainSeenFirstOnly(sn, b, events) ==
    IF sn = <<>> THEN [buf |-> b, events |-> events]
    ELSE LET r == ShiftAll(b[Head(sn)], events)
         IN  [buf |-> [b EXCEPT ![Head(sn)] = r.pending], events |-> r.events]

\* for (const domain of this._repo.seen) drain domain.events
RECURSIVE DrainSeen(_, _, _)
DrainSeen(sn, b, events) ==
    IF sn = <<>> THEN [buf |-> b, events |-> events]
    ELSE LET r == ShiftAll(b[Head(sn)], events)
         IN  DrainSeen(Tail(sn), [b EXCEPT ![Head(sn)] = r.pending],
                       r.events)

\* new Error('Repository not initialized')
RepoNotInitializedError == Err("Error", "Repository not initialized")

\* variant: the test of this._repo is missing
CollectNewEventsUnchecked(u) ==
    LET r == DrainSeen(u.seen, u.buf, u.events)
    IN  [u EXCEPT !.buf = r.buf, !.events = r.events,
                  !.log = Append(@, "collect")]

\* collectNewEvents(): throws when no repository is set; otherwise drains
\* every seen aggregate into _events and returns _events (u.events of the
\* result)
CollectNewEvents(u) ==
    IF ~u.repo
    THEN [u EXCEPT !.error = RepoNotInitializedError,
                   !.log = Append(@, "collect")]
    ELSE LET r == DrainSeen(u.seen, u.buf, u.events)
         IN  [u EXCEPT !.buf = r.buf, !.events = r.events,
                       !.log = Append(@, "collect")]

InSeq(x, sq) == \E i \in 1..Len(sq) : sq[i] = x

\* the identities of the messages of a list
Ids(sq) == {sq[i].id : i \in 1..Len(sq)}

\* repo.add / repo.update: the aggregate joins `seen` and a write is staged
RepoWrite(u, d, repoThrows) ==
    IF repoThrows THEN [u EXCEPT !.error = RepoError]
    ELSE [u EXCEPT !.seen = IF InSeq(d, @) THEN @ ELSE Append(@, d),
                   !.staged = @ \cup {d}]

\* repo.get: a read, or throws
RepoGet(u, d, repoThrows) ==
    IF repoThrows THEN [u EXCEPT !.error = RepoError] ELSE u

\* catch (error) { await this.exit(error); throw error }
\* finally { await this.exit() }
\* the error leaving the operation is the one of the last throw
CatchFinally(u, rbThrows) ==
    LET c == Exit([u EXCEPT !.error = NoError], TRUE, rbThrows)
        e == IF c.error # NoError THEN c.error ELSE u.error
    IN  [Exit(c, FALSE, FALSE) EXCEPT !.error = e]

\* add(domain): enter, repo.add, commit, collectNewEvents, exit
UowAdd(u, d, outcome, rbThrows) ==
    LET u1 == Enter(u)
        u2 == RepoWrite(u1, d, outcome = "repoThrows")
        u3 == Commit(u2, outcome = "commitThrows")
    IN  IF u2.error # NoError THEN CatchFinally(u2, rbThrows)
        ELSE IF u3.error # NoError THEN CatchFinally(u3, rbThrows)
        ELSE Exit(CollectNewEvents(u3), FALSE, FALSE)

\* update(domain): enter, repo.update, commit, collectNewEvents, exit
UowUpdate(u, d, outcome, rbThrows) ==
    LET u1 == Enter(u)
        u2 == RepoWrite(u1, d, outcome = "repoThrows")
        u3 == Commit(u2, outcome = "commitThrows")
    IN  IF u2.error # NoError THEN CatchFinally(u2, rbThrows)
        ELSE IF u3.error # NoError THEN CatchFinally(u3, rbThrows)
        ELSE Exit(CollectNewEvents(u3), FALSE, FALSE)

\* variant: get harvests after its commit, as add and update do
UowGetHarvests(u, d, outcome, rbThrows) ==
    LET u1 == Enter(u)
        u2 == RepoGet(u1, d, outcome = "repoThrows")
        u3 == Commit(u2, outcome = "commitThrows")
    IN  IF u2.error # NoError THEN CatchFinally(u2, rbThrows)
        ELSE IF u3.error # NoError THEN CatchFinally(u3, rbThrows)
        ELSE Exit(CollectNewEvents(u3), FALSE, FALSE)

\* get(id): enter, repo.get, commit, exit
UowGet(u, d, outcome, rbThrows) ==
    LET u1 == Enter(u)
        u2 == RepoGet(u1, d, outcome = "repoThrows")
        u3 == Commit(u2, outcome = "commitThrows")
    IN  IF u2.error # NoError THEN CatchFinally(u2, rbThrows)
        ELSE IF u3.error # NoError THEN CatchFinally(u3, rbThrows)
        ELSE Exit(u3, FALSE, FALSE)

Outcomes == {"ok", "repoThrows", "commitThrows"}

\* the variables take the fields of u
SetUow(u) ==
    /\ uowEvents' = u.events
    /\ seen' = u.seen
    /\ sessionOpen' = u.open
    /\ buf' = u.buf
    /\ staged' = u.staged
    /\ durable' = u.durable
    /\ chainDurable' = u.cdur
    /\ log' = u.log

\* ------------------------------------------------------------ IHandler
\* addMessages: this._return_messages.push(...messages)
AddMessages(r, h, messages) == [r EXCEPT ![h] = @ \o messages]

\* finish(): return this._return_messages
Finish(r, h) == r[h]

\* variant: the handler wraps what it caught in a new Error
RethrownWrapped(e) == Err("wrapped", e.detail)

\* catch (error) { await this.logError(...); throw error }
Rethrown(e) == e

\* ---------------------------------------------------------- MessageBus
\* variant: this.queue.unshift(...newMessages)
PushFront(q, newMessages) == newMessages \o q

\* this.queue.push(...newMessages)
Push(q, newMessages) == q \o newMessages

\* variant: the error does not carry the handler key
NoHandlerErrorAnonymous(handlerKey) == Err("NoHandler", "")

\* new Error(`No handler found for command: ${handlerKey}`)
NoHandlerError(handlerKey) == Err("NoHandler", handlerKey)

\* new Error(`${currentMessage} was not a Command or Event`)
NotRoutableError(m) == Err("NotCommandOrEvent", m.name)

\* variant: an unregistered event is routed like the event "C"
EventHandlerForDefault(handlerKey) ==
    IF handlerKey \in DOMAIN eventHandlers
    THEN eventHandlers[handlerKey] ELSE eventHandlers["C"]

\* this.eventHandlers.get(handlerKey)
EventHandlerFor(handlerKey) ==
    IF handlerKey \in DOMAIN eventHandlers
    THEN eventHandlers[handlerKey] ELSE "none"

\* variant: one lookup over both maps, the event handlers first
CommandHandlerForMerged(handlerKey) ==
    IF handlerKey \in DOMAIN eventHandlers THEN eventHandlers[handlerKey]
    ELSE IF handlerKey \in DOMAIN commandHandlers
    THEN commandHandlers[handlerKey] ELSE "none"

\* this.commandHandlers.get(handlerKey)
CommandHandlerFor(handlerKey) ==
    IF handlerKey \in DOMAIN commandHandlers
    THEN commandHandlers[handlerKey] ELSE "none"

Rejected(e) == [status |-> "rejected", error |-> e]

\* the pops followed in one chain are capped
PopsLeft == Len(processed) < MaxProcessed

\* const currentMessage = this.queue.shift(), followed when mayPop
ShiftIf(mayPop) ==
    /\ pc = "loop"
    /\ queue # <<>>
    /\ mayPop
    /\ cur' = Head(queue)
    /\ queue' = Tail(queue)
    /\ qidx' = Tail(qidx)
    /\ processed' = Append(processed, Head(qidx))

\* variant: handler.handle(message) is not awaited, the loop goes on
HandlerEntryNotAwaited(h) == "loop"

\* await handler.handle(message): the loop is suspended and the handler is
\* entered; with a Unit of Work it starts with uow.enter(), without one with
\* _handle
HandlerEntry(h) == IF HasUow(h) THEN "enter" ELSE "body"

\* handler.handle(message) is called
Invoke(h) ==
    /\ handler' = h
    /\ invoked' = invoked + 1
    /\ retAtStart' = ret[h]
    /\ ops' = 0
    /\ log' = <<>>
    /\ err' = NoError
    /\ thrown' = NoError
    /\ pc' = HandlerEntry(h)

\* variant: the message is pushed behind what the queue holds
ResetQueueKeeping(q, message) == q \o <<message>>

\* this.queue = [message]
ResetQueue(q, message) == <<message>>

\* MessageBus.handle(message) is called while no other call is running
StartChainWith(message) ==
    /\ pc = "idle"
    /\ chains < MaxChains
    /\ nextId <= MaxCreated
    /\ queue' = ResetQueue(queue, message)
    /\ nextId' = nextId + 1
    /\ chains' = chains + 1
    /\ arrivals' = <<[m |-> message, parent |-> 0]>>
    /\ qidx' = <<1>>
    /\ processed' = <<>>
    /\ invoked' = 0
    /\ chainDurable' = {}
    /\ result' = [status |-> "running", error |-> NoError]
    /\ cur' = NoMsg
    /\ handler' = "none"
    /\ err' = NoError
    /\ thrown' = NoError
    /\ ops' = 0
    /\ log' = <<>>
    /\ retAtStart' = <<>>
    /\ returned' = <<>>
    /\ pc' = "loop"
    /\ UNCHANGED <<ret, uowEvents, seen, sessionOpen, buf, staged, durable>>

\* handle is given a newly constructed message of the variant `name`
StartChain(name) == StartChainWith(Msg(name, nextId))

\* MessageBus.handle(message), called directly by the application
BusHandle(name) ==
    /\ StartChain(name)
    /\ UNCHANGED extVars

\* variant: the loop stops while one message is still queued
LoopEndsEarly(q) == Len(q) <= 1

\* while (this.queue.length > 0) is false
LoopEnds(q) == Len(q) = 0

\* the while loop ends: handle resolves
BusDone ==
    /\ pc = "loop"
    /\ LoopEnds(queue)
    /\ pc' = "idle"
    /\ result' = [status |-> "ok", error |-> NoError]
    /\ UNCHANGED extVars
    /\ UNCHANGED <<queue, cur, handler, err, thrown, ret, uowEvents, seen,
                   sessionOpen, buf, staged, durable, nextId, ops, log,
                   arrivals, qidx, processed, invoked, retAtStart, returned,
                   chainDurable, chains>>

\* handleCommand, handler found
HandleCommandIf(mayPop) ==
    /\ ShiftIf(mayPop)
    /\ Head(queue).kind = "cmd"
    /\ CommandHandlerFor(Head(queue).name) # "none"
    /\ Invoke(CommandHandlerFor(Head(queue).name))
    /\ UNCHANGED extVars
    /\ UNCHANGED <<result, ret, uowEvents, seen, sessionOpen, buf, staged,
                   durable, nextId, arrivals, returned, chainDurable, chains>>

HandleCommand == HandleCommandIf(PopsLeft)

\* handleCommand, if (!handler) throw
HandleCommandNoHandlerIf(mayPop) ==
    /\ ShiftIf(mayPop)
    /\ Head(queue).kind = "cmd"
    /\ CommandHandlerFor(Head(queue).name) = "none"
    /\ handler' = "none"
    /\ result' = Rejected(NoHandlerError(Head(queue).name))
    /\ pc' = "idle"
    /\ UNCHANGED extVars
    /\ UNCHANGED <<err, thrown, ret, uowEvents, seen, sessionOpen, buf,
                   staged, durable, nextId, ops, log, arrivals, invoked,
                   retAtStart, returned, chainDurable, chains>>

HandleCommandNoHandler == HandleCommandNoHandlerIf(PopsLeft)

\* handleEvent, handler found
HandleEventIf(mayPop) ==
    /\ ShiftIf(mayPop)
    /\ Head(queue).kind = "evt"
    /\ EventHandlerFor(Head(queue).name) # "none"
    /\ Invoke(EventHandlerFor(Head(queue).name))
    /\ UNCHANGED extVars
    /\ UNCHANGED <<result, ret, uowEvents, seen, sessionOpen, buf, staged,
                   durable, nextId, arrivals, returned, chainDurable, chains>>

HandleEvent == HandleEventIf(PopsLeft)

\* handleEvent, if (!handler) return
HandleEventNoHandlerIf(mayPop) ==
    /\ ShiftIf(mayPop)
    /\ Head(queue).kind = "evt"
    /\ EventHandlerFor(Head(queue).name) = "none"
    /\ handler' = "none"
    /\ pc' = "loop"
    /\ UNCHANGED extVars
    /\ UNCHANGED <<err, thrown, result, ret, uowEvents, seen, sessionOpen,
                   buf, staged, durable, nextId, ops, log, arrivals, invoked,
                   retAtStart, returned, chainDurable, chains>>

HandleEventNoHandler == HandleEventNoHandlerIf(PopsLeft)

\* neither a Command nor an Event: throw
HandleNotRoutableIf(mayPop) ==
    /\ ShiftIf(mayPop)
    /\ Head(queue).kind = "other"
    /\ handler' = "none"
    /\ result' = Rejected(NotRoutableError(Head(queue)))
    /\ pc' = "idle"
    /\ UNCHANGED extVars
    /\ UNCHANGED <<err, thrown, ret, uowEvents, seen, sessionOpen, buf,
                   staged, durable, nextId, ops, log, arrivals, invoked,
                   retAtStart, returned, chainDurable, chains>>

HandleNotRoutable == HandleNotRoutableIf(PopsLeft)

\* IHandler.handle: await this.uow.enter()
UowEnterStep ==
    /\ pc = "enter"
    /\ SetUow(Enter(UowState))
    /\ pc' = "body"
    /\ UNCHANGED <<busVars, err, thrown, ret, nextId, ops, retAtStart,
                   returned>>

UowEnter ==
    /\ UowEnterStep
    /\ UNCHANGED extVars

\* _handle: an aggregate records an event (domain.addEvent(new E(domain)))
\* as one of at most `limit` steps of the body
DomainAddEventWithin(limit, d, name) ==
    /\ pc = "body"
    /\ name \in Records(handler)
    /\ ops < limit
    /\ nextId <= MaxCreated
    /\ buf' = AddEvent(buf, d, EventOf(d, name, nextId))
    /\ log' = Append(log, "addEvent")
    /\ nextId' = nextId + 1
    /\ ops' = ops + 1
    /\ UNCHANGED extVars
    /\ UNCHANGED <<busVars, pc, err, thrown, ret, uowEvents, seen,
                   sessionOpen, staged, durable, retAtStart, returned,
                   chainDurable>>

DomainAddEvent(d, name) == DomainAddEventWithin(MaxOps, d, name)

\* _handle: this.addMessages([new M(...)])
HandleAddMessages(name) ==
    /\ pc = "body"
    /\ name \in Emits(handler)
    /\ ops < MaxOps
    /\ nextId <= MaxCreated
    /\ ret' = AddMessages(ret, handler, <<Msg(name, nextId)>>)
    /\ nextId' = nextId + 1
    /\ ops' = ops + 1
    /\ UNCHANGED extVars
    /\ UNCHANGED <<busVars, pc, err, thrown, uowVars, buf, retAtStart,
                   returned>>

\* a uow operation called by _handle returns, or its error leaves _handle
AfterUowOp(u) ==
    /\ SetUow(u)
    /\ ops' = ops + 1
    /\ err' = u.error
    /\ thrown' = u.error
    /\ pc' = IF u.error # NoError THEN "catch" ELSE "body"
    /\ UNCHANGED extVars
    /\ UNCHANGED <<busVars, ret, nextId, retAtStart, returned>>

\* _handle: await this.uow.add(domain), as one of at most `limit` steps
HandleUowAddWithin(limit, d, outcome, rbThrows) ==
    /\ pc = "body"
    /\ HasUow(handler)
    /\ ops < limit
    /\ AfterUowOp(UowAdd(UowState, d, outcome, rbThrows))

HandleUowAdd(d, outcome, rbThrows) ==
    HandleUowAddWithin(MaxOps, d, outcome, rbThrows)

\* _handle: await this.uow.update(domain), as one of at most `limit` steps
HandleUowUpdateWithin(limit, d, outcome, rbThrows) ==
    /\ pc = "body"
    /\ HasUow(handler)
    /\ ops < limit
    /\ AfterUowOp(UowUpdate(UowState, d, outcome, rbThrows))

HandleUowUpdate(d, outcome, rbThrows) ==
    HandleUowUpdateWithin(MaxOps, d, outcome, rbThrows)

\* _handle: await this.uow.get(id), as one of at most `limit` steps
HandleUowGetWithin(limit, d, outcome, rbThrows) ==
    /\ pc = "body"
    /\ HasUow(handler)
    /\ ops < limit
    /\ AfterUowOp(UowGet(UowState, d, outcome, rbThrows))

HandleUowGet(d, outcome, rbThrows) ==
    HandleUowGetWithin(MaxOps, d, outcome, rbThrows)

\* _handle throws a business error
HandleThrows(e) ==
    /\ pc = "body"
    /\ err' = e
    /\ thrown' = e
    /\ pc' = "catch"
    /\ UNCHANGED extVars
    /\ UNCHANGED <<busVars, ret, uowVars, buf, nextId, ops, retAtStart,
                   returned>>

\* _handle returns; without a Unit of Work handle goes on to finish()
HandleReturns ==
    /\ pc = "body"
    /\ pc' = IF HasUow(handler) THEN "collect" ELSE "push"
    /\ UNCHANGED extVars
    /\ UNCHANGED <<busVars, err, thrown, ret, uowVars, buf, nextId, ops,
                   retAtStart, returned>>

\* this.addMessages(this.uow.collectNewEvents())
HandleCollect ==
    /\ pc = "collect"
    /\ LET u == CollectNewEvents(UowState)
       IN  /\ SetUow(u)
           /\ ret' = IF u.error # NoError THEN ret
                     ELSE AddMessages(ret, handler, u.events)
           /\ err' = u.error
           /\ thrown' = u.error
           /\ pc' = IF u.error # NoError THEN "catch" ELSE "commit"
    /\ UNCHANGED extVars
    /\ UNCHANGED <<busVars, nextId, ops, retAtStart, returned>>

\* await this.uow.commit(); on success return this.finish() is reached
CommitStep(commitThrows) ==
    /\ pc = "commit"
    /\ LET u == Commit(UowState, commitThrows)
       IN  /\ SetUow(u)
           /\ err' = u.error
           /\ thrown' = u.error
           /\ pc' = IF u.error # NoError THEN "catch" ELSE "finally"
    /\ UNCHANGED <<busVars, ret, nextId, ops, retAtStart, returned>>

HandleCommit(commitThrows) ==
    /\ CommitStep(commitThrows)
    /\ UNCHANGED extVars

\* catch (error) { await this.logError(...); throw error }
HandleCatch ==
    /\ pc = "catch"
    /\ err' = Rethrown(err)
    /\ pc' = IF HasUow(handler) THEN "finally" ELSE "rethrow"
    /\ UNCHANGED extVars
    /\ UNCHANGED <<busVars, thrown, ret, uowVars, buf, nextId, ops,
                   retAtStart, returned>>

\* finally { await this.uow.exit() }
HandleFinally ==
    /\ pc = "finally"
    /\ SetUow(Exit(UowState, FALSE, FALSE))
    /\ pc' = IF err # NoError THEN "rethrow" ELSE "push"
    /\ UNCHANGED extVars
    /\ UNCHANGED <<busVars, err, thrown, ret, nextId, ops, retAtStart,
                   returned>>

\* the error leaves handler.handle, handleCommand/handleEvent and handle
BusRejects ==
    /\ pc = "rethrow"
    /\ result' = Rejected(err)
    /\ pc' = "idle"
    /\ ops' = 0
    /\ log' = <<>>
    /\ retAtStart' = <<>>
    /\ UNCHANGED extVars
    /\ UNCHANGED <<queue, cur, handler, err, thrown, ret, uowEvents, seen,
                   sessionOpen, buf, staged, durable, nextId, arrivals, qidx,
                   processed, invoked, returned, chainDurable, chains>>

\* const newMessages = await handler.handle(m);
\* this.queue.push(...newMessages); handleCommand/handleEvent returns and
\* its handler constant is gone
BusPush ==
    /\ pc = "push"
    /\ LET newMessages == Finish(ret, handler)
           n == Len(arrivals)
           k == Len(newMessages)
       IN  /\ queue' = Push(queue, newMessages)
           /\ qidx' = Push(qidx, [i \in 1..k |-> n + i])
           /\ arrivals' = arrivals \o
                  [i \in 1..k |-> [m |-> newMessages[i],
                                   parent |-> processed[Len(processed)]]]
           /\ returned' = newMessages
    /\ pc' = "loop"
    /\ ops' = 0
    /\ log' = <<>>
    /\ retAtStart' = <<>>
    /\ UNCHANGED extVars
    /\ handler' = "none"
    /\ UNCHANGED <<cur, err, thrown, result, ret, uowEvents, seen,
                   sessionOpen, buf, staged, durable, nextId, processed,
                   invoked, chainDurable, chains>>

AllNames == CommandNames \cup EventNames \cup OtherNames

\* the aggregates the process holds anything about
Known ==
    {d \in Aggregates :
        InSeq(d, seen) \/ buf[d] # <<>> \/ d \in staged \/ d \in durable}

\* the aggregates a _handle body may pick: they are interchangeable, so the
\* first one a behaviour uses is called "d1"
Usable == IF "d1" \in Known THEN Aggregates ELSE {"d1"}

Next ==
    \/ \E name \in CommandNames : BusHandle(name)
    \/ BusDone
    \/ HandleCommand
    \/ HandleCommandNoHandler
    \/ HandleEvent
    \/ HandleEventNoHandler
    \/ HandleNotRoutable
    \/ UowEnter
    \/ \E d \in Usable, name \in EventNames : DomainAddEvent(d, name)
    \/ \E name \in AllNames : HandleAddMessages(name)
    \/ \E d \in Usable, o \in Outcomes, rb \in BOOLEAN :
          HandleUowAdd(d, o, rb)
    \/ \E d \in Usable, o \in Outcomes, rb \in BOOLEAN :
          HandleUowUpdate(d, o, rb)
    \/ \E d \in Usable, o \in Outcomes, rb \in BOOLEAN :
          HandleUowGet(d, o, rb)
    \/ \E e \in BusinessErrors : HandleThrows(e)
    \/ HandleReturns
    \/ HandleCollect
    \/ HandleCommit(FALSE)
    \/ HandleCommit(TRUE)
    \/ HandleCatch
    \/ HandleFinally
    \/ BusRejects
    \/ BusPush

Spec == Init /\ [][Next]_vars

\* ------------------------------------------------ one chain to its end
\* a step of the running handle call: the loop pops whatever the queue
\* holds, however many pops that takes; the _handle bodies emit through
\* addMessages only
ChainStep ==
    \/ BusDone
    \/ HandleCommandIf(TRUE)
    \/ HandleCommandNoHandlerIf(TRUE)
    \/ HandleEventIf(TRUE)
    \/ HandleEventNoHandlerIf(TRUE)
    \/ HandleNotRoutableIf(TRUE)
    \/ UowEnter
    \/ \E name \in AllNames : HandleAddMessages(name)
    \/ \E e \in BusinessErrors : HandleThrows(e)
    \/ HandleReturns
    \/ HandleCollect
    \/ HandleCommit(FALSE)
    \/ HandleCommit(TRUE)
    \/ HandleCatch
    \/ HandleFinally
    \/ BusRejects
    \/ BusPush

\* MessageBus.handle(new B(...)) with the Command class named like an Event
BusHandleNamesake(name) ==
    /\ StartChainWith(NamesakeCommand(name, nextId))
    /\ UNCHANGED extVars

NextChain ==
    \/ \E name \in CommandNames : BusHandle(name)
    \/ \E name \in DOMAIN commandHandlers \cap DOMAIN eventHandlers :
          BusHandleNamesake(name)
    \/ ChainStep

\* the event loop keeps running the pending continuation of the handle call:
\* every awaited handler, hook and repository call settles
SpecChain == Init /\ [][NextChain]_vars /\ WF_vars(ChainStep)

\* ------------------------------------- chains with their history recorded
\* MessageBus.handle(message); the history keeps what the aborted chain
\* before it left in the queue
BusHandleTracked(name) ==
    /\ StartChain(name)
    /\ hist' = [hist EXCEPT !.abandoned =
                   IF result.status = "rejected" THEN @ \cup Ids(queue)
                   ELSE @]
    /\ UNCHANGED <<adapter, second, repoAttached>>

\* uow.enter(); the history keeps what _events held when the invocation
\* began
UowEnterTracked ==
    /\ UowEnterStep
    /\ hist' = [hist EXCEPT !.atStart = Ids(uowEvents)]
    /\ UNCHANGED <<adapter, second, repoAttached>>

\* uow.commit(); the history keeps the events the invocation harvested when
\* its commit throws
CommitTracked(commitThrows) ==
    /\ CommitStep(commitThrows)
    /\ hist' = [hist EXCEPT !.lost =
                   IF commitThrows THEN @ \cup (Ids(uowEvents) \ hist.atStart)
                   ELSE @]
    /\ UNCHANGED <<adapter, second, repoAttached>>

NextTracked ==
    \/ \E name \in CommandNames : BusHandleTracked(name)
    \/ BusDone
    \/ HandleCommand
    \/ HandleCommandNoHandler
    \/ HandleEvent
    \/ HandleEventNoHandler
    \/ HandleNotRoutable
    \/ UowEnterTracked
    \/ \E d \in Usable, name \in EventNames : DomainAddEvent(d, name)
    \/ \E name \in AllNames : HandleAddMessages(name)
    \/ \E d \in Usable, o \in Outcomes, rb \in BOOLEAN :
          HandleUowAdd(d, o, rb)
    \/ \E e \in BusinessErrors : HandleThrows(e)
    \/ HandleReturns
    \/ HandleCollect
    \/ CommitTracked(FALSE)
    \/ CommitTracked(TRUE)
    \/ HandleCatch
    \/ HandleFinally
    \/ BusRejects
    \/ BusPush

SpecTracked == Init /\ [][NextTracked]_vars

\* ------------------------------------------- one handler invocation alone
\* The command handler has just been called with the first command of a
\* fresh bus (the state Spec reaches by BusHandle("A") and HandleCommand);
\* its _handle body is followed for up to MaxHarvestOps steps of addEvent
\* and uow.add/update/get, then the envelope harvests, commits and exits.
InitHarvest ==
    /\ queue = <<>>
    /\ pc = "enter"
    /\ cur = Msg("A", 1)
    /\ handler = "hA"
    /\ err = NoError
    /\ thrown = NoError
    /\ result = [status |-> "running", error |-> NoError]
    /\ ret = [h \in Handlers |-> <<>>]
    /\ uowEvents = <<>>
    /\ seen = <<>>
    /\ sessionOpen = FALSE
    /\ buf = [d \in Aggregates |-> <<>>]
    /\ staged = {}
    /\ durable = {}
    /\ nextId = 2
    /\ ops = 0
    /\ log = <<>>
    /\ arrivals = <<[m |-> Msg("A", 1), parent |-> 0]>>
    /\ qidx = <<>>
    /\ processed = <<1>>
    /\ invoked = 1
    /\ retAtStart = <<>>
    /\ returned = <<>>
    /\ chainDurable = {}
    /\ chains = 1
    /\ adapter = NoAdapter
    /\ second = NoSecond
    /\ repoAttached = TRUE
    /\ hist = NoHistory

NextHarvest ==
    \/ UowEnter
    \/ \E d \in Aggregates, name \in EventNames :
          DomainAddEventWithin(MaxHarvestOps, d, name)
    \/ \E d \in Aggregates, o \in Outcomes, rb \in BOOLEAN :
          HandleUowAddWithin(MaxHarvestOps, d, o, rb)
    \/ \E d \in Aggregates, o \in Outcomes, rb \in BOOLEAN :
          HandleUowUpdateWithin(MaxHarvestOps, d, o, rb)
    \/ \E d \in Aggregates, o \in Outcomes, rb \in BOOLEAN :
          HandleUowGetWithin(MaxHarvestOps, d, o, rb)
    \/ HandleReturns
    \/ HandleCollect
    \/ HandleCommit(FALSE)
    \/ HandleCommit(TRUE)
    \/ HandleCatch
    \/ HandleFinally

SpecHarvest == InitHarvest /\ [][NextHarvest]_vars

\* --------------------------------------- collectNewEvents called directly
\* a Unit of Work as constructed, with or without a repository set, and
\* aggregates that record events; no handler is running
InitCollect ==
    /\ queue = <<>>
    /\ pc = "idle"
    /\ cur = NoMsg
    /\ handler = "none"
    /\ err = NoError
    /\ thrown = NoError
    /\ result = [status |-> "none", error |-> NoError]
    /\ ret = [h \in Handlers |-> <<>>]
    /\ uowEvents = <<>>
    /\ seen = <<>>
    /\ sessionOpen = FALSE
    /\ buf = [d \in Aggregates |-> <<>>]
    /\ staged = {}
    /\ durable = {}
    /\ nextId = 1
    /\ ops = 0
    /\ log = <<>>
    /\ arrivals = <<>>
    /\ qidx = <<>>
    /\ processed = <<>>
    /\ invoked = 0
    /\ retAtStart = <<>>
    /\ returned = <<>>
    /\ chainDurable = {}
    /\ chains = 0
    /\ adapter = NoAdapter
    /\ second = NoSecond
    /\ repoAttached \in BOOLEAN
    /\ hist = NoHistory

\* domain.addEvent(new E(domain))
RecordEvent(d, name) ==
    /\ nextId <= MaxCreated
    /\ buf' = AddEvent(buf, d, EventOf(d, name, nextId))
    /\ nextId' = nextId + 1
    /\ UNCHANGED extVars
    /\ UNCHANGED <<busVars, pc, err, thrown, ret, uowVars, ops, retAtStart,
                   returned>>

\* the repository, when there is one, has an aggregate added: it joins seen
RepoSees(d) ==
    /\ repoAttached
    /\ ~InSeq(d, seen)
    /\ SetUow(RepoWrite(UowState, d, FALSE))
    /\ UNCHANGED extVars
    /\ UNCHANGED <<busVars, pc, err, thrown, ret, nextId, ops, retAtStart,
                   returned>>

\* uow.collectNewEvents() is called: it returns the list, or throws
CollectCall ==
    /\ Len(log) < MaxOps
    /\ LET u == CollectNewEvents(UowState)
       IN  /\ SetUow(u)
           /\ err' = u.error
           /\ returned' = IF u.error # NoError THEN <<>> ELSE u.events
    /\ UNCHANGED extVars
    /\ UNCHANGED <<busVars, pc, thrown, ret, nextId, ops, retAtStart>>

NextCollect ==
    \/ \E d \in Aggregates, name \in Records("hA") : RecordEvent(d, name)
    \/ \E d \in Aggregates : RepoSees(d)
    \/ CollectCall

SpecCollect == InitCollect /\ [][NextCollect]_vars

\* ------------------------------------------------------------ properties
Count(sq, x) == Cardinality({i \in 1..Len(sq) : sq[i] = x})

RoutingErrorTypes == {"NoHandler", "NotCommandOrEvent"}

\* the running handle call popped a message in this step
Popped == pc = "loop" /\ queue # <<>> /\ processed' # processed

\* a handler invocation has run to its end (return or throw)
InvocationEnded == pc \in {"push", "rethrow"} /\ handler # "none"

\* C1: the messages a handler returns are appended at the tail of the queue
\* in the order returned: messages are popped in the order in which they
\* were enqueued, and the queue holds exactly the messages that arrived
\* after the popped ones, in arrival order (breadth-first by arrival).
C1_FifoByArrival ==
    /\ \A i \in 1..Len(processed) : processed[i] = i
    /\ Len(qidx) = Len(queue)
    /\ \A j \in 1..Len(qidx) :
          /\ qidx[j] = Len(processed) + j
          /\ qidx[j] <= Len(arrivals)
          /\ queue[j] = arrivals[qidx[j]].m
    /\ (pc = "loop" => Len(processed) + Len(queue) = Len(arrivals))

\* A returned [B, C], B returned [L], C returned [L]; all five were popped
C1_Witness ==
    /\ Len(arrivals) = 5
    /\ [i \in 1..5 |-> arrivals[i].m.name] = <<"A", "B", "C", "L", "L">>
    /\ [i \in 1..5 |-> arrivals[i].parent] = <<0, 1, 1, 2, 3>>
    /\ processed = <<1, 2, 3, 4, 5>>

\* C2: popping a Command whose type has no entry in the command-handler
\* mapping rejects handle with a routing error naming the command's variant;
\* no handler is invoked, and after a rejection the only step is a new
\* handle call, which starts from a queue holding its own message alone.
C2_MissingCommandHandlerIsFatal ==
    [][/\ (Popped /\ Head(queue).kind = "cmd"
                  /\ Head(queue).name \notin DOMAIN commandHandlers)
          => /\ result' = Rejected(Err("NoHandler", Head(queue).name))
             /\ pc' = "idle"
             /\ invoked' = invoked
             /\ arrivals' = arrivals
       /\ (result.status = "rejected")
          => /\ pc = "idle"
             /\ processed' = <<>>
             /\ queue' = <<arrivals'[1].m>>
             /\ queue'[1].id = nextId]_vars

\* rejected for an unregistered command while messages are still queued
C2_Witness ==
    /\ result.status = "rejected"
    /\ result.error = Err("NoHandler", "X")
    /\ cur.name = "X"
    /\ queue # <<>>

\* C3: popping an Event whose type has no entry in the event-handler mapping
\* drops it: no handler is invoked, nothing is enqueued, no handler's list
\* changes, the loop goes on, and handle is not rejected by it.
C3_UnhandledEventIsDropped ==
    [][(Popped /\ Head(queue).kind = "evt"
               /\ Head(queue).name \notin DOMAIN eventHandlers)
          => /\ pc' = "loop"
             /\ queue' = Tail(queue)
             /\ invoked' = invoked
             /\ arrivals' = arrivals
             /\ ret' = ret
             /\ result' = result]_vars

\* an unhandled event was dropped, a later message was processed after it
\* and handle completed normally
C3_Witness ==
    /\ result.status = "ok"
    /\ \E i \in 1..Len(processed) :
          /\ arrivals[i].m.kind = "evt"
          /\ arrivals[i].m.name \notin DOMAIN eventHandlers
          /\ i < Len(processed)

\* C4: a handler invocation with a Unit of Work calls closeDbSession
\* exactly once.
C4_SessionReleasedExactlyOnce ==
    (InvocationEnded /\ HasUow(handler)) => Count(log, "close") = 1

\* C5: when a handler invocation with a Unit of Work ends with an error,
\* the rollback hook has been invoked.
C5_RollbackBeforeRejection ==
    (pc = "rethrow" /\ handler # "none" /\ HasUow(handler))
        => Count(log, "rollback") >= 1

\* C6: an error thrown inside a handler invocation reaches the caller of
\* MessageBus.handle unchanged: from the throw on the error in flight is the
\* one thrown, nothing is enqueued or popped, and handle is rejected with
\* exactly that error.
C6_ErrorAbortsChain ==
    [][(pc \in {"catch", "finally", "rethrow"} /\ thrown # NoError)
          => /\ err' = thrown
             /\ thrown' = thrown
             /\ queue' = queue
             /\ arrivals' = arrivals
             /\ processed' = processed
             /\ pc' \in {"finally", "rethrow", "idle"}
             /\ (pc' = "idle" => result' = Rejected(thrown))]_vars

\* a handler that had added a message threw while messages were queued:
\* handle is rejected with the business error, the queue is as it was
C6_Witness ==
    /\ result.status = "rejected"
    /\ result.error \in BusinessErrors
    /\ handler # "none"
    /\ ret[handler] # <<>>
    /\ queue # <<>>
    /\ \A i \in 1..Len(arrivals) :
          arrivals[i].parent # processed[Len(processed)]

\* C7: when handle is rejected because a handler failed, no write of the
\* chain has been made durable.
C7_AllOrNothing ==
    (result.status = "rejected" /\ result.error.type \notin RoutingErrorTypes)
        => chainDurable = {}

\* a step in which a call of collectNewEvents returns
CollectReturns ==
    \/ HandleCollect
    \/ \E d \in Aggregates : HandleUowAdd(d, "ok", FALSE)
    \/ \E d \in Aggregates : HandleUowUpdate(d, "ok", FALSE)

SeenDrained(sn, b) == \A i \in 1..Len(sn) : b[sn[i]] = <<>>

NoDuplicates(sq) == \A i, j \in 1..Len(sq) : sq[i] = sq[j] => i = j

\* C8: when collectNewEvents returns, the buffer of every aggregate in
\* `seen` is empty and no event is in the accumulated list twice; another
\* call with no addEvent in between returns the same list.
C8_HarvestDrainsOnce ==
    [][CollectReturns
          => /\ SeenDrained(seen', buf')
             /\ NoDuplicates(uowEvents')
             /\ (CollectNewEvents(UowState).events)' = uowEvents'
             /\ (HandleCollect /\ SeenDrained(seen, buf))
                   => uowEvents' = uowEvents]_vars

\* the handler's harvest follows the harvest of uow.add in the same
\* invocation, and an event was drained
C8_Witness ==
    /\ pc = "commit"
    /\ log = <<"set", "addEvent", "set", "commit", "collect", "close",
               "collect">>
    /\ Len(uowEvents) = 1
    /\ ret[handler] = uowEvents

\* C9: _return_messages is empty when a handle call starts.
C9_ReturnListStartsEmpty ==
    (handler # "none" /\ pc \in {"enter", "body"}) => retAtStart = <<>>

\* a step of _handle that constructs no message: one call of uow.add,
\* uow.get or uow.update
UowOperation == pc = "body" /\ ops' = ops + 1 /\ nextId' = nextId

\* C10: one call of uow.add, get or update makes exactly one setDbSession
\* and exactly one closeDbSession call.
C10_SymmetricSession ==
    [][UowOperation
          => /\ Count(log', "set") = Count(log, "set") + 1
             /\ Count(log', "close") = Count(log, "close") + 1]_vars

\* --------------------------------------------- two overlapping handle calls
\* A second MessageBus.handle call is made on the same bus while the first
\* is suspended at an await inside a handler.  The first call is the one of
\* Spec; the second call has its own loop position in `second` and shares
\* queue, handler instances and Unit of Work with the first.  Between two
\* awaits a call runs alone: the second call moves only while the first is
\* suspended or over, the first only while the second is suspended in a
\* handler, not yet made, or over.  The _handle body of a handler invoked
\* by the second call makes at most one addMessages call; the _handle
\* bodies of the first call call addMessages or throw.

\* the first call waits at an await inside handler.handle
Suspended == pc \in {"body", "commit", "catch"}

SecondMayRun == pc \in {"body", "commit", "catch", "idle"}

FirstMayRun == second.pc \in {"off", "inHandler", "done"}

firstVars == <<pc, cur, handler, err, thrown, result, ops, processed,
               invoked, retAtStart, returned, adapter, auxVars>>

\* the handler the loop resolves for a message ("none": no handler)
HandlerFor(m) ==
    IF m.kind = "cmd" THEN CommandHandlerFor(m.name)
    ELSE IF m.kind = "evt" THEN EventHandlerFor(m.name) ELSE "none"

\* MessageBus.handle(message) is called while the first call is suspended
SecondHandle(name) ==
    /\ second.pc = "off"
    /\ Suspended
    /\ chains < MaxChains
    /\ nextId <= MaxCreated
    /\ LET m == Msg(name, nextId)
           n == Len(arrivals) + 1
       IN  /\ queue' = ResetQueue(queue, m)
           /\ qidx' = ResetQueue(qidx, n)
           /\ arrivals' = Append(arrivals, [m |-> m, parent |-> 0])
           /\ second' = [second EXCEPT !.pc = "loop", !.root = n,
                                       !.dropped = qidx,
                                       !.result = "running"]
    /\ nextId' = nextId + 1
    /\ chains' = chains + 1
    /\ UNCHANGED <<firstVars, ret, uowVars, buf>>

\* the second loop pops a message that has a handler and calls the handler
SecondDispatch ==
    /\ second.pc = "loop"
    /\ SecondMayRun
    /\ queue # <<>>
    /\ Len(second.popped) < MaxProcessed
    /\ HandlerFor(Head(queue)) # "none"
    /\ second' = [second EXCEPT !.pc = "inHandler", !.cur = Head(queue),
                                !.handler = HandlerFor(Head(queue)),
                                !.popped = Append(@, Head(qidx))]
    /\ queue' = Tail(queue)
    /\ qidx' = Tail(qidx)
    /\ IF HasUow(HandlerFor(Head(queue)))
       THEN SetUow([Enter(UowState) EXCEPT !.log = log])
       ELSE UNCHANGED uowVars /\ UNCHANGED buf
    /\ UNCHANGED <<firstVars, ret, nextId, arrivals, chains>>

\* the second loop pops a command without handler, or a message that is
\* neither command nor event: the second call rejects
SecondRejects ==
    /\ second.pc = "loop"
    /\ SecondMayRun
    /\ queue # <<>>
    /\ Len(second.popped) < MaxProcessed
    /\ Head(queue).kind # "evt"
    /\ HandlerFor(Head(queue)) = "none"
    /\ second' = [second EXCEPT !.pc = "done", !.cur = Head(queue),
                                !.result = "rejected",
                                !.popped = Append(@, Head(qidx))]
    /\ queue' = Tail(queue)
    /\ qidx' = Tail(qidx)
    /\ UNCHANGED <<firstVars, ret, uowVars, buf, nextId, arrivals, chains>>

\* the second loop pops an event without handler and goes on
SecondSkips ==
    /\ second.pc = "loop"
    /\ SecondMayRun
    /\ queue # <<>>
    /\ Len(second.popped) < MaxProcessed
    /\ Head(queue).kind = "evt"
    /\ HandlerFor(Head(queue)) = "none"
    /\ second' = [second EXCEPT !.cur = Head(queue),
                                !.popped = Append(@, Head(qidx))]
    /\ queue' = Tail(queue)
    /\ qidx' = Tail(qidx)
    /\ UNCHANGED <<firstVars, ret, uowVars, buf, nextId, arrivals, chains>>

\* the handler called by the second loop returns: _handle (emit: the message
\* it passes to addMessages, or "none"), with a Unit of Work the harvest,
\* commit and exit, then finish(); the second loop pushes what it got
SecondReturns(emit) ==
    /\ second.pc = "inHandler"
    /\ SecondMayRun
    /\ emit \in Emits(second.handler) \cup {"none"}
    /\ emit # "none" => nextId <= MaxCreated
    /\ LET h == second.handler
           r1 == IF emit = "none" THEN ret
                 ELSE AddMessages(ret, h, <<Msg(emit, nextId)>>)
           c == CollectNewEvents(UowState)
           r2 == IF HasUow(h) THEN AddMessages(r1, h, c.events) ELSE r1
           u == IF HasUow(h) THEN Exit(Commit(c, FALSE), FALSE, FALSE)
                ELSE UowState
           newMessages == Finish(r2, h)
           n == Len(arrivals)
           k == Len(newMessages)
       IN  /\ ret' = r2
           /\ SetUow([u EXCEPT !.log = log])
           /\ queue' = Push(queue, newMessages)
           /\ qidx' = Push(qidx, [i \in 1..k |-> n + i])
           /\ arrivals' = arrivals \o
                  [i \in 1..k |->
                      [m |-> newMessages[i],
                       parent |-> second.popped[Len(second.popped)]]]
    /\ nextId' = IF emit = "none" THEN nextId ELSE nextId + 1
    /\ second' = [second EXCEPT !.pc = "loop", !.handler = "none"]
    /\ UNCHANGED <<firstVars, chains>>

\* the handler called by the second loop throws: with a Unit of Work the
\* finally-exit runs; the second call rejects
SecondThrows ==
    /\ second.pc = "inHandler"
    /\ SecondMayRun
    /\ IF HasUow(second.handler)
       THEN SetUow([Exit(UowState, FALSE, FALSE) EXCEPT !.log = log])
       ELSE UNCHANGED uowVars /\ UNCHANGED buf
    /\ second' = [second EXCEPT !.pc = "done", !.result = "rejected"]
    /\ UNCHANGED <<firstVars, queue, qidx, arrivals, ret, nextId, chains>>

\* the second loop finds the queue empty: the second call resolves
SecondDone ==
    /\ second.pc = "loop"
    /\ SecondMayRun
    /\ queue = <<>>
    /\ second' = [second EXCEPT !.pc = "done", !.result = "ok"]
    /\ UNCHANGED <<firstVars, queue, qidx, arrivals, ret, uowVars, buf,
                   nextId, chains>>

NextOverlap ==
    \/ \E name \in CommandNames : chains = 0 /\ BusHandle(name)
    \/ FirstMayRun /\ BusDone
    \/ FirstMayRun /\ HandleCommand
    \/ FirstMayRun /\ HandleCommandNoHandler
    \/ FirstMayRun /\ HandleEvent
    \/ FirstMayRun /\ HandleEventNoHandler
    \/ FirstMayRun /\ HandleNotRoutable
    \/ FirstMayRun /\ UowEnter
    \/ \E name \in AllNames : FirstMayRun /\ HandleAddMessages(name)
    \/ \E e \in BusinessErrors : FirstMayRun /\ HandleThrows(e)
    \/ FirstMayRun /\ HandleReturns
    \/ FirstMayRun /\ HandleCollect
    \/ FirstMayRun /\ HandleCommit(FALSE)
    \/ FirstMayRun /\ HandleCommit(TRUE)
    \/ FirstMayRun /\ HandleCatch
    \/ FirstMayRun /\ HandleFinally
    \/ FirstMayRun /\ BusRejects
    \/ FirstMayRun /\ BusPush
    \/ \E name \in CommandNames : SecondHandle(name)
    \/ SecondDispatch
    \/ SecondRejects
    \/ SecondSkips
    \/ \E emit \in AllNames \cup {"none"} : SecondReturns(emit)
    \/ SecondThrows
    \/ SecondDone

SpecOverlap == Init /\ [][NextOverlap]_vars

\* ------------------------------------------------- entry-point adapters
\* createApiEntryPoint's POST handler (kind "api") and the function made by
\* createLambdaHandler (kind "lambda") serve one request.  The input carries
\* an external_job_id; requestConstructor.validate, requestConstructor.create
\* and createCommand are the application's: validate returns an error list,
\* each of the three may throw.  adapter.calls is the history of the
\* collaborators called.
AdapterKinds == {"api", "lambda"}
JobIds == {"job-1", "job-2"}

StatusOk == 200
StatusInvalid == 400
StatusFailed == 500

\* what the application's collaborators throw: Error objects, or a value
\* that is no Error
JsonError == Err("json", "Unexpected end of JSON input")
ValidateError == Err("validate", "cannot validate")
CreateErrors == {Err("create", "cannot create request"), Err("value", "bad")}
CreateCommandError == Err("createCommand", "cannot create command")

\* variant: the response carries a fixed text instead of the message
ErrorMessageFixed(e) == "Internal server error"

\* error instanceof Error ? error.message : 'Unknown error'
ErrorMessage(e) == IF e.type # "value" THEN e.detail ELSE "Unknown error"

\* variant: the error list is not looked at
ValidationFailedNever(valid) == FALSE

\* validationErrors.length > 0, for an input that is valid or not
ValidationFailed(valid) == ~valid

\* the 400 response: the Lambda one echoes event?.external_job_id
InvalidResponse(kind, jobId) ==
    [status |-> StatusInvalid,
     jobId |-> IF kind = "lambda" THEN jobId ELSE "none",
     message |-> "Validation failed"]

\* the 200 response echoes request.external_job_id
OkResponse(kind, jobId) ==
    [status |-> StatusOk, jobId |-> jobId,
     message |-> "Request processed successfully"]

\* the 500 response: the Lambda one echoes event?.external_job_id
FailedResponse(kind, jobId, e) ==
    [status |-> StatusFailed,
     jobId |-> IF kind = "lambda" THEN jobId ELSE "none",
     message |-> ErrorMessage(e)]

adapterFrame == <<queue, pc, cur, handler, err, thrown, result, ret,
                  uowEvents, seen, sessionOpen, buf, staged, durable, nextId,
                  ops, log, arrivals, qidx, processed, invoked, retAtStart,
                  returned, chainDurable, chains, second, auxVars>>

\* the adapter is called with an input; the API adapter first reads the body
\* (await c.req.json()), which may throw
AdapterCall(kind, jobId, valid, jsonThrows) ==
    /\ adapter.pc = "off"
    /\ pc = "idle"
    /\ chains = 0
    /\ jsonThrows => kind = "api"
    /\ adapter' = [adapter EXCEPT !.kind = kind, !.jobId = jobId,
                                  !.valid = valid,
                                  !.thrown = IF jsonThrows THEN JsonError
                                             ELSE NoError,
                                  !.pc = IF jsonThrows THEN "catch"
                                         ELSE "validate"]
    /\ UNCHANGED adapterFrame

\* requestConstructor.validate(input); a non-empty error list is answered
\* with 400
AdapterValidate(throws) ==
    /\ adapter.pc = "validate"
    /\ adapter' =
          IF throws
          THEN [adapter EXCEPT !.calls = Append(@, "validate"),
                               !.thrown = ValidateError, !.pc = "catch"]
          ELSE IF ValidationFailed(adapter.valid)
          THEN [adapter EXCEPT !.calls = Append(@, "validate"),
                               !.response = InvalidResponse(adapter.kind,
                                                            adapter.jobId),
                               !.pc = "done"]
          ELSE [adapter EXCEPT !.calls = Append(@, "validate"),
                               !.pc = "create"]
    /\ UNCHANGED adapterFrame

\* const request = await requestConstructor.create(input)
AdapterCreate(outcome) ==
    /\ adapter.pc = "create"
    /\ outcome \in CreateErrors \cup {NoError}
    /\ adapter' = [adapter EXCEPT !.calls = Append(@, "create"),
                                  !.thrown = outcome,
                                  !.pc = IF outcome # NoError THEN "catch"
                                         ELSE "createCommand"]
    /\ UNCHANGED adapterFrame

\* const command = createCommand(request)
AdapterCreateCommand(name, throws) ==
    /\ adapter.pc = "createCommand"
    /\ name \in CommandNames
    /\ adapter' =
          IF throws
          THEN [adapter EXCEPT !.calls = Append(@, "createCommand"),
                               !.thrown = CreateCommandError,
                               !.pc = "catch"]
          ELSE [adapter EXCEPT !.calls = Append(@, "createCommand"),
                               !.command = name, !.pc = "handle"]
    /\ UNCHANGED adapterFrame

\* await messageBus.handle(command): the call is made
AdapterHandle ==
    /\ adapter.pc = "handle"
    /\ StartChain(adapter.command)
    /\ adapter' = [adapter EXCEPT !.calls = Append(@, "handle"),
                                  !.pc = "await"]
    /\ UNCHANGED <<second, auxVars>>

\* messageBus.handle resolved: the 200 response; or rejected: catch
AdapterHandled ==
    /\ adapter.pc = "await"
    /\ pc = "idle"
    /\ result.status \in {"ok", "rejected"}
    /\ adapter' =
          IF result.status = "ok"
          THEN [adapter EXCEPT !.response = OkResponse(adapter.kind,
                                                       adapter.jobId),
                               !.pc = "done"]
          ELSE [adapter EXCEPT !.thrown = result.error, !.pc = "catch"]
    /\ UNCHANGED adapterFrame

\* catch (error): the 500 response
AdapterCatch ==
    /\ adapter.pc = "catch"
    /\ adapter' = [adapter EXCEPT !.response =
                                      FailedResponse(adapter.kind,
                                                     adapter.jobId,
                                                     adapter.thrown),
                                  !.pc = "done"]
    /\ UNCHANGED adapterFrame

NextAdapter ==
    \/ \E kind \in AdapterKinds, jobId \in JobIds, valid \in BOOLEAN :
          AdapterCall(kind, jobId, valid, FALSE)
    \/ \E jobId \in JobIds, valid \in BOOLEAN :
          AdapterCall("api", jobId, valid, TRUE)
    \/ AdapterValidate(FALSE)
    \/ AdapterValidate(TRUE)
    \/ \E outcome \in CreateErrors \cup {NoError} : AdapterCreate(outcome)
    \/ \E name \in CommandNames : AdapterCreateCommand(name, FALSE)
    \/ \E name \in CommandNames : AdapterCreateCommand(name, TRUE)
    \/ AdapterHandle
    \/ AdapterHandled
    \/ AdapterCatch
    \/ BusDone
    \/ HandleCommand
    \/ HandleCommandNoHandler
    \/ HandleEvent
    \/ HandleEventNoHandler
    \/ HandleNotRoutable
    \/ UowEnter
    \/ \E d \in Usable, name \in EventNames : DomainAddEvent(d, name)
    \/ \E name \in AllNames : HandleAddMessages(name)
    \/ \E d \in Usable, o \in Outcomes, rb \in BOOLEAN :
          HandleUowAdd(d, o, rb)
    \/ \E d \in Usable, o \in Outcomes, rb \in BOOLEAN :
          HandleUowUpdate(d, o, rb)
    \/ \E d \in Usable, o \in Outcomes, rb \in BOOLEAN :
          HandleUowGet(d, o, rb)
    \/ \E e \in BusinessErrors : HandleThrows(e)
    \/ HandleReturns
    \/ HandleCollect
    \/ HandleCommit(FALSE)
    \/ HandleCommit(TRUE)
    \/ HandleCatch
    \/ HandleFinally
    \/ BusRejects
    \/ BusPush

SpecAdapter == Init /\ [][NextAdapter]_vars

\* ---------------------------------------------------------------- C11
SeenIdx(sn, d) == CHOOSE i \in 1..Len(sn) : sn[i] = d

\* every event recorded since the invocation began on an aggregate that was
\* added is in the handler's outbound list
AllHarvested ==
    \A k \in (cur.id + 1)..(nextId - 1) :
        \/ k \in Ids(ret[handler])
        \/ \E d \in Aggregates : ~InSeq(d, seen) /\ k \in Ids(buf[d])

\* sq is ordered by the add order of the aggregates, then by push order
AddThenPushOrder(sn, sq) ==
    \A i, j \in 1..Len(sq) :
        i < j => \/ SeenIdx(sn, sq[i].domain) < SeenIdx(sn, sq[j].domain)
                 \/ /\ sq[i].domain = sq[j].domain
                    /\ sq[i].id < sq[j].id

\* the events of one aggregate are in push order
PushOrderPerAggregate(sq) ==
    \A i, j \in 1..Len(sq) :
        (i < j /\ sq[i].domain = sq[j].domain) => sq[i].id < sq[j].id

\* the events standing in the buffers of the aggregates in sn
PendingIds(sn, b) == UNION {Ids(b[sn[i]]) : i \in 1..Len(sn)}

Range(sq) == {sq[i] : i \in 1..Len(sq)}

\* the call whose chain an arrival belongs to: the call that was given its
\* root ancestor
RECURSIVE Owner(_)
Owner(i) ==
    IF arrivals[i].parent = 0
    THEN (IF i = second.root THEN 2 ELSE 1)
    ELSE Owner(arrivals[i].parent)

\* the second call is made in this step
SecondStarts == second.pc = "off" /\ second'.pc # "off"

\* C12: a second handle call made while the first is suspended inside a
\* handler resets the one shared queue to its own message, whatever the
\* queue held; what was pending for the first chain is popped by neither
\* loop afterwards.
C12_OverlapResetsQueue ==
    /\ [][SecondStarts
            => /\ Suspended
               /\ queue' = <<arrivals'[second'.root].m>>
               /\ second'.dropped = qidx
               /\ Range(qidx) \cap Range(qidx') = {}]_vars
    /\ [](\A i \in Range(second.dropped) :
             /\ i \notin Range(processed)
             /\ i \notin Range(second.popped)
             /\ i \notin Range(qidx))

\* both calls are over; a message pending for the first chain was lost, and
\* the first loop popped a message returned by a handler of the second chain
C12_Witness ==
    /\ pc = "idle"
    /\ second.pc = "done"
    /\ second.dropped # <<>>
    /\ \A i \in Range(second.dropped) : Owner(i) = 1
    /\ \E k \in 1..Len(processed) : Owner(processed[k]) = 2

\* ---------------------------------------------------------------- C13
\* C13: a request whose validate step returns a non-empty error list is
\* answered with 400, and neither requestConstructor.create, createCommand
\* nor messageBus.handle is called for it: the dispatch loop is never
\* started.
C13_InvalidRequestStopsAtValidation ==
    ~adapter.valid
        => /\ \A i \in 1..Len(adapter.calls) : adapter.calls[i] = "validate"
           /\ chains = 0
           /\ pc = "idle"
           /\ queue = <<>>
           /\ (adapter.pc = "done" /\ adapter.thrown = NoError)
                  => /\ adapter.calls = <<"validate">>
                     /\ adapter.response.status = StatusInvalid

\* the Lambda adapter answered an invalid input
C13_Witness ==
    /\ adapter.kind = "lambda"
    /\ adapter.pc = "done"
    /\ ~adapter.valid
    /\ adapter.calls = <<"validate">>
    /\ adapter.response.status = StatusInvalid

\* ---------------------------------------------------------------- C14
\* C14: for a request that passed validation the adapter answers 200 with
\* the request's external_job_id when messageBus.handle completed, and 500
\* with the message of the error when messageBus.handle, create or
\* createCommand threw one; every call of the adapter ends in a response.
C14_ResponseFollowsHandle ==
    /\ adapter.pc = "done"
          => adapter.response.status \in {StatusOk, StatusInvalid,
                                          StatusFailed}
    /\ (adapter.pc = "done" /\ InSeq("create", adapter.calls))
          => IF InSeq("handle", adapter.calls) /\ result.status = "ok"
             THEN /\ adapter.response.status = StatusOk
                  /\ adapter.response.jobId = adapter.jobId
                  /\ adapter.thrown = NoError
             ELSE /\ adapter.response.status = StatusFailed
                  /\ adapter.thrown # NoError
                  /\ adapter.thrown.type # "value"
                         => adapter.response.message = adapter.thrown.detail
                  /\ InSeq("handle", adapter.calls)
                         => /\ result.status = "rejected"
                            /\ adapter.thrown = result.error

\* the API adapter answered 500 with the message of the business error that
\* a handler threw
C14_Witness ==
    /\ adapter.kind = "api"
    /\ adapter.pc = "done"
    /\ adapter.calls = <<"validate", "create", "createCommand", "handle">>
    /\ result.status = "rejected"
    /\ result.error \in BusinessErrors
    /\ adapter.response.status = StatusFailed
    /\ adapter.response.message = "boom"

\* ---------------------------------------------------------------- C15
\* C15: exit(error) closes the storage session after rolling back, whether
\* the rollback hook returns or throws: closeDbSession is the last call
\* exit makes and the session is closed when exit is left.
C15_ExitAlwaysCloses ==
    (pc = "body" /\ HasUow(handler) /\ sessionOpen)
        => \A rbThrows \in BOOLEAN :
              LET u == Exit(UowState, TRUE, rbThrows)
              IN  /\ ~u.open
                  /\ u.log[Len(u.log)] = "close"

\* ---------------------------------------------------------------- C16
\* the calls of the running invocation up to the n-th
Prefix(sq, n) == SubSeq(sq, 1, n)

\* enter/exit brackets open after the first n calls of the invocation
OpenBrackets(n) ==
    Count(Prefix(log, n), "set") - Count(Prefix(log, n), "close")

\* C16: no enter/exit bracket on the repository session is opened while
\* another one is open, also when _handle calls uow.add/get/update inside
\* the handler-level bracket; so the session is still open when the
\* handler-level commit runs.
C16_BracketsDoNotOverlap ==
    /\ \A n \in 0..Len(log) : OpenBrackets(n) \in {0, 1}
    /\ (pc = "commit" /\ HasUow(handler)) => sessionOpen

\* ---------------------------------------------------------------- C17
\* C17: the list collectNewEvents returns to the envelope holds only events
\* recorded during the running handler invocation, none that the Unit of
\* Work harvested in an earlier one.
C17_FreshUowPerInvocation ==
    (pc = "commit" /\ HasUow(handler))
        => \A i \in 1..Len(uowEvents) : uowEvents[i].id > cur.id

\* ---------------------------------------------------------------- C18
\* sq is sq0 with one element appended
AppendedTo(sq0, sq) ==
    Len(sq) = Len(sq0) + 1 /\ Prefix(sq, Len(sq0)) = sq0

\* the identities of the events standing in the buffers b
BufferedIds(b) == UNION {Ids(b[d]) : d \in Aggregates}

\* C18: over the addEvent and collectNewEvents calls of a behaviour every
\* recorded event is in exactly one place, its aggregate's buffer or the
\* Unit of Work's accumulated list, and is moved from the first to the
\* second at most once and never dropped; the events of one aggregate keep
\* their push order; a buffer changes only by an append at its tail or by
\* being drained, and the accumulated list only by appends at its tail.
C18_EventsMovedOnce ==
    /\ [](/\ NoDuplicates(uowEvents)
          /\ PushOrderPerAggregate(uowEvents)
          /\ Ids(uowEvents) \cap BufferedIds(buf) = {}
          /\ \A d \in Aggregates :
                /\ PushOrderPerAggregate(buf[d])
                /\ \A i \in 1..Len(buf[d]) : buf[d][i].domain = d
                /\ \A e \in Aggregates \ {d} :
                      Ids(buf[d]) \cap Ids(buf[e]) = {})
    /\ [][/\ Len(uowEvents') >= Len(uowEvents)
          /\ Prefix(uowEvents', Len(uowEvents)) = uowEvents
          /\ Ids(uowEvents) \cup BufferedIds(buf)
                \subseteq Ids(uowEvents') \cup BufferedIds(buf')
          /\ \A d \in Aggregates :
                \/ buf'[d] = buf[d]
                \/ AppendedTo(buf[d], buf'[d])
                \/ /\ buf'[d] = <<>>
                   /\ Ids(buf[d]) \subseteq Ids(uowEvents')
                   /\ Ids(buf[d]) \cap Ids(uowEvents) = {}]_vars

\* an aggregate's buffer was drained by uow.add, it recorded a further
\* event, and the envelope's harvest put that event behind the first
C18_Witness ==
    /\ pc = "commit"
    /\ log = <<"set", "addEvent", "set", "commit", "collect", "close",
               "addEvent", "collect">>
    /\ Len(uowEvents) = 2
    /\ uowEvents[1].domain = uowEvents[2].domain
    /\ uowEvents[1].id < uowEvents[2].id

\* ---------------------------------------------------------------- C19
\* a uow.get call, or a uow.add / uow.update call in which the repository
\* operation or the commit throws
GetOrFailedWrite ==
    \/ \E d \in Aggregates, o \in Outcomes, rb \in BOOLEAN :
          HandleUowGetWithin(MaxHarvestOps, d, o, rb)
    \/ \E d \in Aggregates, o \in {"repoThrows", "commitThrows"},
          rb \in BOOLEAN :
          \/ HandleUowAddWithin(MaxHarvestOps, d, o, rb)
          \/ HandleUowUpdateWithin(MaxHarvestOps, d, o, rb)

C20_OneInvocationAtATime ==
    pc = "loop" => (handler = "none" /\ ~sessionOpen)

\* the second message of a chain is being handled, after the invocation of
\* a handler with a Unit of Work for the first has ended
C20_Witness ==
    /\ pc = "body"
    /\ Len(processed) = 2
    /\ invoked = 2
    /\ ~HasUow(handler)
    /\ ~sessionOpen

\* C21: with handlers that terminate and an acyclic emission graph
\* (A -> B, C; command B -> event B; B -> L; C -> L, X, M) every MessageBus.handle call ends, and
\* one that resolves leaves the queue empty, also when a handler instance
\* was invoked more than once in the chain
C21_ChainTerminates ==
    /\ (result.status = "running") ~> (pc = "idle")
    /\ [](pc = "idle" /\ result.status = "ok" => queue = <<>>)

C21_Witness ==
    /\ pc = "idle"
    /\ result.status = "ok"
    /\ \E i, j \in 1..Len(processed) :
          /\ i < j
          /\ arrivals[processed[i]].m.id # arrivals[processed[j]].m.id
          /\ HandlerFor(arrivals[processed[i]].m) # "none"
          /\ HandlerFor(arrivals[processed[i]].m)
               = HandlerFor(arrivals[processed[j]].m)

\* the popped messages before the last one that had a handler
HandledBeforeLast ==
    {i \in 1..(Len(processed) - 1) :
        HandlerFor(arrivals[processed[i]].m) # "none"}

\* C22: once a message that is neither a Command nor an Event was popped,
\* the handle call has rejected with the routing error naming it, no handler
\* was invoked for it, and it stays the last message popped whatever is
\* still queued
C22_NotRoutableIsFatal ==
    cur.name \in OtherNames =>
        /\ pc = "idle"
        /\ result = Rejected(NotRoutableError(cur))
        /\ handler = "none"
        /\ invoked = Cardinality(HandledBeforeLast)
        /\ arrivals[processed[Len(processed)]].m = cur

C22_Witness ==
    /\ cur.name \in OtherNames
    /\ result.status = "rejected"
    /\ queue # <<>>

\* C23: a collectNewEvents call on a Unit of Work without a repository
\* throws 'Repository not initialized', drains no aggregate buffer and
\* leaves the accumulated event list as it was
C23_NoRepoCollectFails ==
    [][(Len(log') > Len(log) /\ ~repoAttached) =>
          /\ err' = RepoNotInitializedError
          /\ buf' = buf
          /\ uowEvents' = uowEvents]_vars

C23_Witness ==
    /\ ~repoAttached
    /\ err = RepoNotInitializedError
    /\ log # <<>>
    /\ BufferedIds(buf) # {}

\* C24: an event harvested by a handler invocation whose commit threw is
\* never in the bus queue, neither in that chain nor in a later one
C24_LostEventsNeverQueued ==
    \A i \in 1..Len(queue) : queue[i].id \notin hist.lost

\* C25: a message that was left in the queue when a chain aborted is never
\* popped by a later handle call
C25_AbandonedNeverDispatched ==
    \A i \in 1..Len(processed) :
        arrivals[processed[i]].m.id \notin hist.abandoned

\* the entry of the mapping of the message's own kind, read from the maps
OwnKindEntry(m) ==
    IF m.kind = "cmd" /\ m.name \in DOMAIN commandHandlers
    THEN commandHandlers[m.name]
    ELSE IF m.kind = "evt" /\ m.name \in DOMAIN eventHandlers
    THEN eventHandlers[m.name] ELSE "none"

\* C26: the handler running for the popped message is the entry of the
\* mapping of the message's own kind, also for a name both mappings hold,
\* and the invocations made in the chain are exactly one for each popped
\* message that has such an entry
C26_RoutedByKindOnce ==
    /\ pc \notin {"idle", "loop"} =>
          /\ OwnKindEntry(cur) # "none"
          /\ handler = OwnKindEntry(cur)
    /\ invoked = Cardinality({i \in 1..Len(processed) :
                                OwnKindEntry(arrivals[processed[i]].m)
                                  # "none"})

C26_Witness ==
    /\ Len(processed) = 2
    /\ arrivals[processed[1]].m.kind = "cmd"
    /\ arrivals[processed[1]].m.name = cur.name
    /\ cur.kind = "evt"
    /\ handler = eventHandlers[cur.name]
    /\ handler # commandHandlers[cur.name]
    /\ invoked = 2
    /\ pc = "body"

====
